---- MODULE Spec2Model ----
(***************************************************************************)
(* Session registry, protocol gateway and dispatch router of linear-mcp    *)
(* (src/src/index.ts, the session-indexed server of lines 185-364).        *)
(*                                                                         *)
(* One action is one run of a handler between two suspension points        *)
(* (awaits).  The HTTP requests of the clients, the outcome of the tool    *)
(* handlers and the faults thrown by the transport layer are inputs.       *)
(***************************************************************************)
EXTENDS Integers, FiniteSets, Sequences, TLC

\* ------------------------------------------------------------------ bounds
MaxAdapters == 2   \* StreamableHTTPServerTransport objects ever constructed
MaxInflight == 2   \* POST handlers suspended at an await at one time

\* --------------------------------------------------------------- constants
NoSid == 0         \* req.headers['mcp-session-id'] is undefined
NoAdapter == 0     \* no transport object (undefined)
NullId == 0        \* JSON-RPC id: null

ReqIds == {1, 2}     \* the JSON-RPC ids the clients choose from
Headers == {NoSid} \cup (1..MaxAdapters)

\* Object.values(toolSchemas): the statically registered tools, in order
toolSchemas == <<"linear_create_issue", "linear_search_issues">>
Registered == {toolSchemas[i] : i \in 1..Len(toolSchemas)}
ToolNames == Registered \cup {"does_not_exist"}

\* The JSON bodies the clients post: [method, id, name]; name is the
\* params.name of a tools/call and "" otherwise.
Bodies ==
  {[method |-> m, id |-> i, name |-> ""] :
      m \in {"initialize", "tools/list"}, i \in ReqIds}
  \cup {[method |-> "tools/call", id |-> i, name |-> n] :
      i \in ReqIds, n \in ToolNames}

VARIABLES
  transports,   \* this.transports: session id -> transport object
  adapters,     \* the transport objects constructed so far, by reference
  connected,    \* the transport this.server is connected to
  uuids,        \* how many values randomUUID() has returned
  inflight,     \* the POST handlers suspended at an await
  resp,         \* the HTTP exchanges the most recent step ended
  proc          \* "running", "closing" (SIGINT handler awaits), "exited"

vars == <<transports, adapters, connected, uuids, inflight, resp, proc>>

\* ------------------------------------------------------- JSON-RPC messages
MethodNotFound == -32601   \* ErrorCode.MethodNotFound
InternalError == -32603    \* ErrorCode.InternalError, and the catch block's code
InvalidSession == -32000   \* the literal of the 400 answer

NoPayload ==
  [kind |-> "none", code |-> 0, message |-> <<>>, rid |-> NullId, val |-> <<>>]

\* res.status(..).json({jsonrpc: '2.0', error: {code, message}, id: null})
JsonError(code, message) ==
  [kind |-> "error", code |-> code, message |-> message, rid |-> NullId,
   val |-> <<>>]

\* res.status(400).send(text)
PlainText(message) ==
  [kind |-> "text", code |-> 0, message |-> message, rid |-> NullId,
   val |-> <<>>]

\* {jsonrpc, id, result}: the protocol server's answer to request `id`
RpcResult(id, val) ==
  [kind |-> "result", code |-> 0, message |-> <<>>, rid |-> id, val |-> val]

\* {jsonrpc, id, error: {code, message}}
RpcError(id, code, message) ==
  [kind |-> "rpcerror", code |-> code, message |-> message, rid |-> id,
   val |-> <<>>]

\* What a handler raises or the router throws: new Error(message) carries no
\* code, new McpError(code, message) does; NoThrow: nothing was thrown.
NoThrow == [class |-> "none", code |-> 0, message |-> <<>>]
Error(message) == [class |-> "Error", code |-> 0, message |-> message]
McpError(code, message) ==
  [class |-> "McpError", code |-> code, message |-> message]

\* One ended HTTP exchange: the request (verb, mcp-session-id header, body),
\* the transport object it was forwarded to (NoAdapter: none), the message the
\* protocol server produced for the request (answer; kind "none" when the
\* request never reached it), and the response (status, mcp-session-id
\* response header, payload).  A payload of kind "none" under status 200 is a
\* response whose headers were sent and whose body never comes.  raised is
\* what the tool handler method raised and thrown what the
\* CallToolRequestSchema handler threw for the request (see Threw); fault is
\* the fault thrown into the POST handler's try block (see Faulted).
Exchange(verb, sid, body, tr, answer, status, hdr, payload) ==
  [verb |-> verb, sid |-> sid, method |-> body.method, id |-> body.id,
   name |-> body.name, tr |-> tr, answer |-> answer, status |-> status,
   hdr |-> hdr, payload |-> payload, raised |-> NoThrow, thrown |-> NoThrow,
   fault |-> "none"]

\* The exchange x, ended by a fault thrown inside the POST handler's try
\* block: "connect" by this.server.connect, "early" by
\* transport.handleRequest before the response headers were sent, "late"
\* after that.
Faulted(x, fault) == [x EXCEPT !.fault = fault]

\* The exchanges `out` of a step in which the handler method raised `raised`
\* and the CallToolRequestSchema handler threw `thrown`: both are recorded
\* with the exchange of the request the protocol server then answered.
Threw(out, raised, thrown) ==
  {IF x.answer.kind # "none"
   THEN [x EXCEPT !.raised = raised, !.thrown = thrown] ELSE x : x \in out}

NoBody == [method |-> "", id |-> NullId, name |-> ""]

\* What the gateway itself reads of a body (isInitializeRequest): an exchange
\* that ends before the protocol server parsed the message records no more.
Seen(body) == [method |-> body.method, id |-> NullId, name |-> ""]

\* --------------------------------------------------------------- helpers
\* isInitializeRequest(req.body)
isInitializeRequest(body) == body.method = "initialize"

\* randomUUID(): a value it has not returned before
randomUUID == uuids + 1

\* Mutant: a generator that returns the same id on every call.
sessionIdGenerator_Fixed == NoSid + 1

\* sessionIdGenerator: () => randomUUID()
sessionIdGenerator == randomUUID

\* new StreamableHTTPServerTransport({...}): no session yet, open
NewTransport == [sessionId |-> NoSid, closed |-> FALSE]

\* Mutant: a callback that does not store the transport.
onsessioninitialized_NoStore(sessionId, transport) == transports

\* Mutant: the callback stores the transport constructed last, as a handler
\* would that kept its transport in a field shared across the awaits.
onsessioninitialized_Latest(sessionId, transport) ==
  [s \in DOMAIN transports \cup {sessionId} |->
     IF s = sessionId THEN Len(adapters) ELSE transports[s]]

\* onsessioninitialized: this.transports[sessionId] = transport
onsessioninitialized(sessionId, transport) ==
  [s \in DOMAIN transports \cup {sessionId} |->
     IF s = sessionId THEN transport ELSE transports[s]]

\* this.transports[sessionId]: undefined for a key the object does not hold
Lookup(sessionId) ==
  IF sessionId \in DOMAIN transports THEN transports[sessionId] ELSE NoAdapter

\* Mutant: the initialization branch without the isInitializeRequest test.
Route_NoInitCheck(sessionId, body) ==
  IF sessionId # NoSid /\ Lookup(sessionId) # NoAdapter THEN "reuse"
  ELSE IF sessionId = NoSid THEN "init"
  ELSE "reject"

\* Mutant: the initialization branch without the !sessionId test.
Route_InitWithHeader(sessionId, body) ==
  IF sessionId # NoSid /\ Lookup(sessionId) # NoAdapter THEN "reuse"
  ELSE IF isInitializeRequest(body) THEN "init"
  ELSE "reject"

\* Mutant: the initialization test comes first and ignores the header.
Route_InitFirst(sessionId, body) ==
  IF isInitializeRequest(body) THEN "init"
  ELSE IF sessionId # NoSid /\ Lookup(sessionId) # NoAdapter THEN "reuse"
  ELSE "reject"

\* The three branches of the POST handler:
\*   if (sessionId && this.transports[sessionId]) ..
\*   else if (!sessionId && isInitializeRequest(req.body)) .. else ..
Route(sessionId, body) ==
  IF sessionId # NoSid /\ Lookup(sessionId) # NoAdapter THEN "reuse"
  ELSE IF sessionId = NoSid /\ isInitializeRequest(body) THEN "init"
  ELSE "reject"

\* Mutant: the reuse branch takes the transport the server was last
\* connected to.
ReuseTransport_Latest(sessionId) ==
  IF connected # NoAdapter THEN connected ELSE Lookup(sessionId)

\* transport = this.transports[sessionId] of the reuse branch
ReuseTransport(sessionId) == Lookup(sessionId)

\* Mutant: the guard tests the header only.
GetRejected_HeaderOnly(sessionId) == sessionId = NoSid

\* the guard of the GET handler: !sessionId || !this.transports[sessionId]
GetRejected(sessionId) ==
  sessionId = NoSid \/ Lookup(sessionId) = NoAdapter

\* const transport = this.transports[sessionId] of the GET handler
GetTransport(sessionId) == Lookup(sessionId)

\* the 400 answer of the POST handler
BadRequest ==
  JsonError(InvalidSession, <<"Bad Request: No valid session ID provided">>)

\* Mutant: a transport that answers a second initialize like the first.
AlreadyInitialized_Accepted == RpcResult(NullId, <<"linear-server">>)

\* the transport's answer to an initialize after its first
AlreadyInitialized ==
  JsonError(-32600, <<"Invalid Request: Server already initialized">>)

\* the response of an attached push channel: an open event stream
PushChannel ==
  [kind |-> "sse", code |-> 0, message |-> <<>>, rid |-> NullId, val |-> <<>>]

\* Mutant: the catch block answers with the 400 payload.
InternalServerError_BadRequest == BadRequest

\* the 500 answer of the catch block
InternalServerError == JsonError(InternalError, <<"Internal server error">>)

\* handlerFactory.getHandlerForTool(name): the handler and its method, or an
\* Error whose message starts with 'No handler found'
getHandlerForTool(name) ==
  IF name \in Registered
  THEN [found |-> TRUE, method |-> name]
  ELSE [found |-> FALSE, method |-> ""]

\* Mutant: the lookup error is thrown on as it is, not turned into
\* MethodNotFound.
CallToolRequest_Rethrow(name) ==
  LET h == getHandlerForTool(name) IN
  IF h.found
  THEN [invoke |-> TRUE, method |-> h.method, code |-> 0, message |-> <<>>]
  ELSE [invoke |-> FALSE, method |-> "", code |-> InternalError,
        message |-> <<"No handler found for tool: ", name>>]

\* The CallToolRequestSchema handler up to its await: which handler method it
\* invokes, or the error it throws.
CallToolRequest(name) ==
  LET h == getHandlerForTool(name) IN
  IF h.found
  THEN [invoke |-> TRUE, method |-> h.method, code |-> 0, message |-> <<>>]
  ELSE [invoke |-> FALSE, method |-> "", code |-> MethodNotFound,
        message |-> <<"Unknown tool: ", name>>]

\* What the handler method of a tool does when it is awaited: it returns
\* (NoThrow) or raises one of these.
HandlerErrors ==
  {Error(<<"request failed">>),
   Error(<<"No handler found", " for linked issue">>),
   McpError(MethodNotFound, <<"no such operation">>),
   McpError(InternalError, <<"request failed">>)}
HandlerOutcomes == {NoThrow} \cup HandlerErrors

\* error.message.startsWith(prefix), a message being a sequence of pieces
startsWith(message, prefix) == Len(message) > 0 /\ message[1] = prefix

\* The catch block of the CallToolRequestSchema handler: what it throws for
\* the error a handler method raised.
CallToolCatch(error, name) ==
  IF error.class \in {"Error", "McpError"}
     /\ startsWith(error.message, "No handler found")
  THEN McpError(MethodNotFound, <<"Unknown tool: ", name>>)
  ELSE error

\* The protocol server's answer to request `id` whose request handler threw
\* `error`: the error's code when it has an integer one, InternalError
\* otherwise, and the error's message.
ProtocolAnswer(id, error) ==
  RpcError(id, IF error.class = "McpError" THEN error.code ELSE InternalError,
           error.message)

\* The CallToolRequestSchema handler after its await: the handler method's
\* result is returned, an error it raises goes through the catch block; the
\* protocol server answers the request id with either.
CallToolReturn(id, method, outcome) ==
  IF outcome = NoThrow THEN RpcResult(id, <<"content", method>>)
  ELSE ProtocolAnswer(id, CallToolCatch(outcome, method))

\* Mutant: the tools are listed last first.
ListTools_Reversed ==
  [i \in 1..Len(toolSchemas) |-> toolSchemas[Len(toolSchemas) + 1 - i]]

\* The ListToolsRequestSchema handler
ListTools == toolSchemas

\* A client does not reuse a JSON-RPC id that is still in flight on a session.
ClientIdFree(sid, id) == ~\E f \in inflight : f.sid = sid /\ f.id = id

\* Mutant: the answer is written nowhere and the request's stream is dropped.
Send_Dropped(t, msg, fl, ads) == [out |-> {}, fl |-> fl]

\* The protocol server answers through the transport it was connected to when
\* the request came in (t.via).  That transport writes the message to the
\* stream of its own pending request with the message's id; it has none for
\* another transport's request unless the ids coincide.
\* A request answered with another request's message is over for its client:
\* its stream is closed, and what its own handler method returns later finds
\* no stream on the transport; that later return is left out.
\* t: the task answered; fl: the other suspended tasks; ads: the transports.
Send(t, msg, fl, ads) ==
  LET hdr == ads[t.tr].sessionId
      body == [method |-> t.method, id |-> t.id, name |-> t.name]
      lost == Exchange("POST", t.sid, body, t.tr, msg, 200, hdr, NoPayload)
      taken == {f \in fl : f.pc = "handler" /\ f.tr = t.via /\ f.id = msg.rid}
  IN IF t.via = t.tr
     THEN [out |-> {Exchange("POST", t.sid, body, t.tr, msg, 200, hdr, msg)},
           fl |-> fl]
     ELSE IF t.via # NoAdapter /\ t.via # t.tr
     THEN [out |-> {lost} \cup
                   {Exchange("POST", f.sid,
                             [method |-> f.method, id |-> f.id, name |-> f.name],
                             f.tr, NoPayload, 200, ads[f.tr].sessionId, msg) :
                      f \in taken},
           fl |-> fl \ taken]
     ELSE [out |-> {lost}, fl |-> fl]

\* ------------------------------------------------------------------ state
Init ==
  /\ transports = [s \in {} |-> NoAdapter]
  /\ adapters = <<>>
  /\ connected = NoAdapter
  /\ uuids = 0
  /\ inflight = {}
  /\ resp = {}
  /\ proc = "running"

\* ---------------------------------------------------------------- actions
\* The process is alive, and the clients have read what the last step wrote.
Serving == proc # "exited" /\ resp = {}

\* The clients read the responses the last step ended.
ClientReads ==
  /\ resp # {}
  /\ resp' = {}
  /\ UNCHANGED <<transports, adapters, connected, uuids, inflight, proc>>

\* GET /health
Health ==
  /\ Serving
  /\ resp' = {Exchange("GET /health", NoSid, NoBody, NoAdapter, NoPayload,
                       200, NoSid, PlainText(<<"ok", "linear-mcp">>))}
  /\ UNCHANGED <<transports, adapters, connected, uuids, inflight, proc>>

\* POST /mcp, else branch: 400 and return.
PostReject(sessionId, body) ==
  /\ Serving
  /\ Route(sessionId, body) = "reject"
  /\ resp' = {Exchange("POST", sessionId, Seen(body), NoAdapter, NoPayload,
                       400, NoSid, BadRequest)}
  /\ UNCHANGED <<transports, adapters, connected, uuids, inflight, proc>>

\* POST /mcp, initialization branch up to `await this.server.connect(..)`:
\* a transport object is constructed and the server is connected to it; a
\* fault thrown by connect is answered by the catch block.
PostInit(sessionId, body, fault) ==
  /\ Serving
  /\ Route(sessionId, body) = "init"
  /\ Len(adapters) < MaxAdapters
  /\ adapters' = Append(adapters, NewTransport)
  /\ IF fault
     THEN /\ resp' = {Faulted(Exchange("POST", sessionId, Seen(body),
                                       NoAdapter, NoPayload, 500, NoSid,
                                       InternalServerError), "connect")}
          /\ UNCHANGED <<connected, inflight>>
     ELSE /\ Cardinality(inflight) < MaxInflight
          /\ connected' = Len(adapters) + 1
          /\ inflight' = inflight \cup
               {[pc |-> "connected", sid |-> sessionId, method |-> body.method,
                 id |-> body.id, name |-> body.name, tr |-> Len(adapters) + 1,
                 via |-> NoAdapter]}
          /\ resp' = {}
  /\ UNCHANGED <<transports, uuids, proc>>

\* POST /mcp, initialization branch after the await:
\* `await transport.handleRequest(req, res, req.body)`.  The transport mints
\* its session id, calls onsessioninitialized, sends the response headers and
\* hands the message to the protocol server.  fault: "early" is thrown before
\* the transport did anything, "late" after it sent the headers.
PostInitHandle(t, fault) ==
  /\ Serving
  /\ t \in inflight
  /\ t.pc = "connected"
  /\ LET body == [method |-> t.method, id |-> t.id, name |-> t.name]
         sessionId == sessionIdGenerator
         stored == [adapters EXCEPT ![t.tr].sessionId = sessionId]
     IN IF fault = "early"
        THEN /\ resp' = {Faulted(Exchange("POST", t.sid, Seen(body), t.tr,
                                          NoPayload, 500, NoSid,
                                          InternalServerError), "early")}
             /\ inflight' = inflight \ {t}
             /\ UNCHANGED <<transports, adapters, uuids>>
        ELSE /\ uuids' = uuids + 1
             /\ adapters' = stored
             /\ transports' = onsessioninitialized(sessionId, t.tr)
             /\ IF fault = "late"
                THEN /\ resp' = {Faulted(Exchange("POST", t.sid, Seen(body),
                                                  t.tr, NoPayload, 200,
                                                  sessionId, NoPayload),
                                         "late")}
                     /\ inflight' = inflight \ {t}
                ELSE LET r == Send([t EXCEPT !.via = connected],
                                   RpcResult(t.id, <<"linear-server">>),
                                   inflight \ {t}, stored)
                     IN /\ resp' = r.out
                        /\ inflight' = r.fl
  /\ UNCHANGED <<connected, proc>>

\* POST /mcp, reuse branch: `await transport.handleRequest(req, res, req.body)`
\* on the stored transport.  The transport sends the response headers and hands
\* the message to the protocol server: a second initialize is refused, a
\* tools/list is answered at once, a tools/call runs the CallToolRequestSchema
\* handler, which answers at once (unknown tool) or awaits the handler method.
PostReuse(sessionId, body, fault) ==
  /\ Serving
  /\ Route(sessionId, body) = "reuse"
  /\ ClientIdFree(sessionId, body.id)
  /\ LET tr == ReuseTransport(sessionId)
         t == [pc |-> "handler", sid |-> sessionId, method |-> body.method,
               id |-> body.id, name |-> body.name, tr |-> tr,
               via |-> connected]
         call == CallToolRequest(body.name)
         Ends(status, hdr, payload) ==
           /\ resp' = {Faulted(Exchange("POST", sessionId, Seen(body), tr,
                                        NoPayload, status, hdr, payload),
                               IF tr = NoAdapter THEN "early" ELSE fault)}
           /\ UNCHANGED inflight
         Answers(msg) ==
           LET r == Send(t, msg, inflight, adapters)
           IN /\ resp' = r.out
              /\ inflight' = r.fl
     IN CASE tr = NoAdapter \/ fault = "early" ->
               \* a TypeError on an undefined transport, or a fault of the
               \* transport: the catch block
               Ends(500, NoSid, InternalServerError)
          [] tr # NoAdapter /\ fault = "late" ->
               Ends(200, adapters[tr].sessionId, NoPayload)
          [] tr # NoAdapter /\ fault = "none" /\ body.method = "initialize" ->
               Ends(400, NoSid, AlreadyInitialized)
          [] tr # NoAdapter /\ fault = "none" /\ body.method = "tools/list" ->
               Answers(RpcResult(body.id, ListTools))
          [] tr # NoAdapter /\ fault = "none" /\ body.method = "tools/call"
               /\ ~call.invoke ->
               LET error == McpError(call.code, call.message)
                   r == Send(t, ProtocolAnswer(body.id, error), inflight,
                             adapters)
               IN /\ resp' = Threw(r.out, NoThrow, error)
                  /\ inflight' = r.fl
          [] tr # NoAdapter /\ fault = "none" /\ body.method = "tools/call"
               /\ call.invoke ->
               /\ Cardinality(inflight) < MaxInflight
               /\ inflight' = inflight \cup {[t EXCEPT !.name = call.method]}
               /\ resp' = {}
  /\ UNCHANGED <<transports, adapters, connected, uuids, proc>>

\* The handler method of a suspended tools/call returns or raises (outcome);
\* the protocol server answers the request.
HandlerReturn(t, outcome) ==
  /\ Serving
  /\ t \in inflight
  /\ t.pc = "handler"
  /\ LET r == Send(t, CallToolReturn(t.id, t.name, outcome), inflight \ {t},
                   adapters)
     IN /\ resp' = IF outcome = NoThrow THEN r.out
                   ELSE Threw(r.out, outcome, CallToolCatch(outcome, t.name))
        /\ inflight' = r.fl
  /\ UNCHANGED <<transports, adapters, connected, uuids, proc>>

\* GET /mcp: 400 without a known session id, else
\* `await transport.handleRequest(req, res)`, which attaches the push channel
\* (the response stream) to that transport.
GetMcp(sessionId) ==
  /\ Serving
  /\ LET tr == GetTransport(sessionId) IN
     IF GetRejected(sessionId)
     THEN resp' = {Exchange("GET", sessionId, NoBody, NoAdapter, NoPayload,
                            400, NoSid,
                            PlainText(<<"Invalid or missing session ID">>))}
     ELSE IF tr = NoAdapter
     THEN \* a TypeError on an undefined transport, which nothing catches
          resp' = {Exchange("GET", sessionId, NoBody, NoAdapter, NoPayload,
                            500, NoSid, NoPayload)}
     ELSE resp' = {Exchange("GET", sessionId, NoBody, tr, NoPayload, 200,
                            adapters[tr].sessionId, PushChannel)}
  /\ UNCHANGED <<transports, adapters, connected, uuids, inflight, proc>>

\* SIGINT, up to `await this.server.close()`: the server closes the transport
\* it is connected to, which ends that transport's streams (the pending
\* requests on it get no answer) and leaves the server unconnected.
SigintClose ==
  /\ resp = {}
  /\ proc = "running"
  /\ proc' = "closing"
  /\ IF connected = NoAdapter
     THEN /\ resp' = {}
          /\ UNCHANGED <<adapters, inflight, connected>>
     ELSE LET ended == {f \in inflight : f.pc = "handler" /\ f.tr = connected}
          IN /\ adapters' = [adapters EXCEPT ![connected].closed = TRUE]
             /\ inflight' = inflight \ ended
             /\ resp' = {Exchange("POST", f.sid,
                           [method |-> f.method, id |-> f.id, name |-> f.name],
                           f.tr, NoPayload, 200, adapters[f.tr].sessionId,
                           NoPayload) :
                         f \in ended}
             /\ connected' = NoAdapter
  /\ UNCHANGED <<transports, uuids>>

\* SIGINT, after the await: process.exit(0).
SigintExit ==
  /\ resp = {}
  /\ proc = "closing"
  /\ proc' = "exited"
  /\ resp' = {}
  /\ UNCHANGED <<transports, adapters, connected, uuids, inflight>>

Faults == {"none", "early", "late"}

Next ==
  \/ Health
  \/ \E sid \in Headers, body \in Bodies : PostReject(sid, body)
  \/ \E sid \in Headers, body \in Bodies, fault \in BOOLEAN :
       PostInit(sid, body, fault)
  \/ \E t \in inflight, fault \in Faults : PostInitHandle(t, fault)
  \/ \E sid \in Headers, body \in Bodies, fault \in Faults :
       PostReuse(sid, body, fault)
  \/ \E t \in inflight, outcome \in HandlerOutcomes :
       HandlerReturn(t, outcome)
  \/ \E sid \in Headers : GetMcp(sid)
  \/ SigintClose
  \/ SigintExit
  \/ ClientReads

Spec == Init /\ [][Next]_vars

\* The suspended POST handler of request id on transport tr resumes: the
\* awaited call of the transport, or of the tool handler method, settles.
Resumes(tr, id) ==
  \E t \in inflight :
    /\ t.tr = tr /\ t.id = id
    /\ \/ \E fault \in Faults : PostInitHandle(t, fault)
       \/ \E outcome \in HandlerOutcomes : HandlerReturn(t, outcome)

\* The event loop runs every continuation that is ready: each suspended
\* handler resumes, the SIGINT handler reaches process.exit, responses are
\* read.  Requests and signals arrive when the environment sends them.
FairSpec ==
  /\ Spec
  /\ \A tr \in 1..MaxAdapters, id \in ReqIds : SF_vars(Resumes(tr, id))
  /\ WF_vars(SigintExit)
  /\ WF_vars(ClientReads)

\* ----------------------------------------------------------------- claims
Known == DOMAIN transports

\* C1: a POST or GET that carries a known session id is forwarded to the
\* transport object stored under that id, which is the object that minted the
\* id when the session was initialized; any two requests with the same id
\* reach the same object, and a GET attaches its push channel to that object
\* alone.
C1_RoutedToStoredAdapter ==
  /\ \A x \in resp :
       x.verb \in {"POST", "GET"} /\ x.sid \in Known =>
         /\ x.tr = transports[x.sid]
         /\ adapters[x.tr].sessionId = x.sid
         /\ (x.verb = "GET" => resp = {x} /\ x.payload.kind = "sse")
  /\ \A f \in inflight :
       f.sid \in Known =>
         /\ f.tr = transports[f.sid]
         /\ adapters[f.tr].sessionId = f.sid

\* C1 witness: with two sessions, a GET for the older one attached its push
\* channel to that session's transport while a POST of the same session is
\* suspended on it and the server is connected to the newer transport.
C1_Witness ==
  \E x \in resp :
    /\ x.verb = "GET" /\ x.payload.kind = "sse"
    /\ Cardinality(Known) = 2
    /\ x.tr = transports[x.sid] /\ x.tr # connected
    /\ \E f \in inflight : f.sid = x.sid /\ f.tr = x.tr

\* C2: a POST whose body is not an initialization message and whose session
\* header is absent or unknown is answered 400 with code -32000 and the
\* message "Bad Request: No valid session ID provided" (id null); no
\* transport is constructed, connected or called for it.
C2_Step ==
  /\ \A x \in resp' :
       x.verb = "POST" /\ x.method # "initialize" /\ x.sid \notin Known =>
         /\ x.status = 400
         /\ x.payload =
              [kind |-> "error", code |-> -32000,
               message |-> <<"Bad Request: No valid session ID provided">>,
               rid |-> NullId, val |-> <<>>]
         /\ x.tr = NoAdapter /\ x.answer.kind = "none"
         /\ UNCHANGED <<transports, adapters, connected, inflight>>
  /\ \A f \in inflight' \ inflight :
       f.method # "initialize" => f.sid \in Known

DistinctSessionIds ==
  \A a, b \in 1..Len(adapters) :
    a # b /\ adapters[a].sessionId # NoSid =>
      adapters[a].sessionId # adapters[b].sessionId

\* What an initialization POST without a session header yields: a session id
\* the registry did not hold, stored under that id with the transport of this
\* request, and reported in the response header.
YieldsFreshSession(x) ==
  /\ x.status = 200
  /\ x.hdr # NoSid
  /\ x.hdr \notin Known
  /\ x.hdr \in DOMAIN transports'
  /\ transports'[x.hdr] = x.tr
  /\ adapters'[x.tr].sessionId = x.hdr

C5_OnlyInitAddsEntry ==
  [][Known' # Known =>
       \E x \in resp' :
         /\ x.verb = "POST" /\ x.sid = NoSid /\ x.method = "initialize"
         /\ Known' = Known \cup {x.hdr}]_vars

\* C5 witness: the first session was just stored and answered.
C5_Witness ==
  \E x \in resp :
    /\ x.verb = "POST" /\ x.sid = NoSid /\ x.method = "initialize"
    /\ x.payload.kind = "result" /\ Known = {x.hdr}

\* C6: a tools/call for a name that is not registered makes the router
\* answer the request with MethodNotFound and the message
\* "Unknown tool: <name>", and no handler method is invoked for it.
C6_UnknownToolMethodNotFound ==
  /\ \A x \in resp :
       /\ x.verb = "POST" /\ x.method = "tools/call"
       /\ x.name \notin Registered /\ x.answer.kind # "none"
       => x.answer =
            [kind |-> "rpcerror", code |-> -32601,
             message |-> <<"Unknown tool: ", x.name>>,
             rid |-> x.id, val |-> <<>>]
  /\ \A f \in inflight : f.pc = "handler" => f.name \in Registered

\* C6 witness: the call of does_not_exist was answered MethodNotFound.
C6_Witness ==
  \E x \in resp :
    /\ x.method = "tools/call" /\ x.name = "does_not_exist"
    /\ x.payload.kind = "rpcerror" /\ x.payload.code = -32601
    /\ x.payload.message = <<"Unknown tool: ", "does_not_exist">>

\* Transport a is closed and the registry still holds an entry for it.
ClosedEntry(a) ==
  /\ a \in 1..Len(adapters)
  /\ adapters[a].closed
  /\ \E s \in Known : transports[s] = a

\* C7 as claimed: once a session's transport is closed, its registry entry
\* is eventually removed.
C7_ClosedEntryEvicted ==
  \A a \in 1..MaxAdapters : [](ClosedEntry(a) => <>~ClosedEntry(a))

\* C8 as claimed: once a session's transport is closed, a later POST or GET
\* under that session id is refused (400) without being forwarded to the
\* transport, answered by the protocol server or handed to a tool handler.
C8_ClosedSessionRefused ==
  [][\A a \in 1..Len(adapters) :
       adapters[a].closed /\ adapters[a].sessionId # NoSid =>
         /\ \A x \in resp' :
              x.sid = adapters[a].sessionId =>
                x.status = 400 /\ x.tr = NoAdapter /\ x.answer.kind = "none"
         /\ \A f \in inflight' \ inflight : f.sid # adapters[a].sessionId]_vars

\* C9: the transport stored under a session id is the one that minted the
\* id, and no step replaces it by another.
C9_AdapterNeverReplaced ==
  /\ [](\A s \in Known : adapters[transports[s]].sessionId = s)
  /\ [][\A s \in Known :
          s \in DOMAIN transports' => transports'[s] = transports[s]]_vars

\* C9 witness: two sessions, each stored with its own transport, and a
\* request of the older one answered after the newer one was initialized.
C9_Witness ==
  /\ Cardinality(Known) = 2
  /\ transports[1] # transports[2]
  /\ \E x \in resp : x.verb = "POST" /\ x.sid = 1 /\ x.tr = transports[1]

\* C10 as claimed: a successful tools/call response carries the id and the
\* handler result of its own request, and when a handler returns while
\* another tools/call of the same session is in flight, its request receives
\* the answer with its own id and its own handler's result.
C10_OwnResponse ==
  /\ [](\A x \in resp :
          x.verb = "POST" /\ x.method = "tools/call"
          /\ x.payload.kind = "result" =>
            x.payload.rid = x.id /\ x.payload.val = <<"content", x.name>>)
  /\ [][\A t \in inflight \ inflight' :
          /\ t.pc = "handler" /\ proc' = proc
          /\ \E u \in inflight \ {t} : u.pc = "handler" /\ u.sid = t.sid
          => \E x \in resp' :
               /\ x.sid = t.sid /\ x.id = t.id
               /\ x.payload.kind \in {"result", "rpcerror"}
               /\ x.payload.rid = t.id
               /\ (x.payload.kind = "result"
                     => x.payload.val = <<"content", t.name>>)]_vars

\* C11 as claimed: whatever a handler method raises during a tools/call, the
\* router throws a typed protocol error for it: of kind MethodNotFound when
\* the handler raised a typed MethodNotFound, of kind InternalError for every
\* other error; no untyped error leaves the router.
C11_HandlerErrorsTyped ==
  \A x \in resp :
    x.verb = "POST" /\ x.method = "tools/call" /\ x.raised.class # "none" =>
      /\ x.thrown.class = "McpError"
      /\ x.thrown.code =
           IF x.raised.class = "McpError" /\ x.raised.code = MethodNotFound
           THEN MethodNotFound ELSE InternalError

\* C12: the result of every tools/list is the sequence of the registered
\* tools, in their registration order, whichever sessions exist, whichever
\* requests are in flight and whatever earlier tools/call did; a tools/list
\* response that reaches its client carries that result.
C12_ListIsRegistry ==
  \A x \in resp :
    x.verb = "POST" /\ x.method = "tools/list" =>
      /\ x.answer.kind # "none" =>
           x.answer =
             [kind |-> "result", code |-> 0, message |-> <<>>, rid |-> x.id,
              val |-> toolSchemas]
      /\ x.payload.kind \notin {"none", "error"} => x.payload = x.answer

\* C12 witness: a tools/list was answered with the registry while two
\* sessions exist and a tools/call is in flight.
C12_Witness ==
  \E x \in resp :
    /\ x.method = "tools/list" /\ x.payload.kind = "result"
    /\ x.payload.val = toolSchemas
    /\ Cardinality(Known) = 2
    /\ \E f \in inflight : f.pc = "handler"

\* C13: a POST /mcp in which a fault is thrown before the response headers
\* are sent (by server.connect or by the transport) is answered 500 with
\* code -32603, message "Internal server error" and id null, and that is the
\* only way a POST is answered 500; after a fault thrown when the headers
\* were sent, the response keeps the status it has and gets no body.
C13_FaultAnswered ==
  \A x \in resp :
    x.verb = "POST" =>
      /\ x.fault \in {"connect", "early"} <=> x.status = 500
      /\ x.status = 500 =>
           x.payload =
             [kind |-> "error", code |-> -32603,
              message |-> <<"Internal server error">>, rid |-> NullId,
              val |-> <<>>]
      /\ x.fault = "late" => x.status = 200 /\ x.payload.kind = "none"

\* C13 witness: a fault of the transport on a request of a known session was
\* answered 500 while another request is suspended.
C13_Witness ==
  \E x \in resp :
    /\ x.fault = "early" /\ x.sid \in Known /\ x.status = 500
    /\ x.payload.code = -32603
    /\ inflight # {}

\* C14 as claimed: while the process runs, the answer the protocol server
\* produces for a request is delivered as the response of that request
\* (neither dropped nor sent elsewhere), and a response that carries a
\* JSON-RPC result or error carries the answer to its own request, however
\* many sessions were initialized after the request's session.
C14_CorrelatedResponse ==
  \A x \in resp :
    x.verb = "POST" /\ proc = "running" =>
      /\ x.answer.kind # "none" => x.payload = x.answer
      /\ x.payload.kind \in {"result", "rpcerror"} => x.payload = x.answer

\* Every transport that minted a session id is stored under that id, and
\* every entry of the registry holds the transport that minted its key.
StoredWithOwnAdapter ==
  /\ \A a \in 1..Len(adapters) :
       adapters[a].sessionId # NoSid =>
         /\ adapters[a].sessionId \in Known
         /\ transports[adapters[a].sessionId] = a
  /\ \A s \in Known :
       /\ transports[s] \in 1..Len(adapters)
       /\ adapters[transports[s]].sessionId = s

\* The step in which the initialization task t resumes after its await while
\* another initialization task is suspended: unless it is answered 500, the
\* registry gains exactly one entry, a new id mapped to t's own transport,
\* and every entry it had stays as it was.
InterleavedInitStep(t) ==
  LET new == Known' \ Known IN
  /\ \A k \in Known : k \in Known' /\ transports'[k] = transports[k]
  /\ \A s \in new : transports'[s] = t.tr /\ adapters'[t.tr].sessionId = s
  /\ \A x \in resp' :
       x.tr = t.tr =>
         Cardinality(new) = (IF x.status = 500 THEN 0 ELSE 1)

\* C15: when initialization POSTs without a session header interleave at
\* their awaits, each one that is handled adds its own entry: a distinct id
\* mapped to the transport its own request constructed; no entry is lost,
\* overwritten or mapped to another request's transport.
C15_InterleavedInitsKeepRegistry ==
  /\ []StoredWithOwnAdapter
  /\ [][\A t \in inflight \ inflight' :
          /\ t.pc = "connected"
          /\ \E u \in inflight \ {t} : u.pc = "connected"
          => InterleavedInitStep(t)]_vars

\* C15 witness: two initializations interleaved (the transport constructed
\* second was handled first and minted the first id) and both are stored,
\* each id with its own transport.
C15_Witness ==
  /\ Known = {1, 2}
  /\ transports[1] = 2 /\ transports[2] = 1
  /\ adapters[1].sessionId = 2 /\ adapters[2].sessionId = 1

Arrived(x) ==
  ~\E f \in inflight : f.sid = x.sid /\ f.id = x.id /\ f.tr = x.tr

Pending(tr, id) == \E f \in inflight : f.tr = tr /\ f.id = id

\* The HTTP responses that the step gives to the request of task t.
ResponsesTo(t) ==
  {x \in resp' :
     x.verb = "POST" /\ x.tr = t.tr /\ x.sid = t.sid
     /\ x.id \in {t.id, NullId}}

====
